---- MODULE Spec2Model ----
(***************************************************************************)
(* The attention notebook (src/nlp/attention.ipynb) as a state machine.    *)
(*                                                                         *)
(* State: the kernel's module-level names (t, d, x, y, perm, x_new, y_new, *)
(* wq, wk, wv), the position in the notebook (pc) and the locals of the    *)
(* most recent invocation of basic_attention / qkv_attention (fr) and the   *)
(* exception that invocation raised, if any (exc).                         *)
(* Actions: the code cells, each taken as a whole.                         *)
(*                                                                         *)
(* A second specification, SpecPar, runs one invocation of each function   *)
(* concurrently, a line of a function body at a time: tb and tq are the    *)
(* frames (position, argument, locals, value returned) of the thread in    *)
(* basic_attention and of the thread in qkv_attention.                     *)
(*                                                                         *)
(* Arithmetic is exact.  Tensor entries drawn by torch.randn are small     *)
(* integers; the values produced by F.softmax are exact elements of        *)
(* Q(e): quotients of integer polynomials in u = exp(-1).  Floating-point  *)
(* rounding is not represented.                                            *)
(***************************************************************************)
EXTENDS Integers, Sequences, FiniteSets, TLC

VARIABLES t, d, x, y, perm, x_new, y_new, wq, wk, wv, pc, fr, exc, tb, tq

vars == <<t, d, x, y, perm, x_new, y_new, wq, wk, wv, pc, fr, exc, tb, tq>>

(***************************************************************************)
(* Bounds and program constants                                            *)
(***************************************************************************)
\* `t, d = 4, 2`: the vector dimension of the notebook.
D == 2

\* The sequence length t ranges over 0..MaxT (the notebook uses t = 4).
MaxT == 3

\* Values an entry of torch.randn(t, d) takes in the model.
XVals == {0, 1}

(***************************************************************************)
(* Tensors: a shape (r, c) and r rows of c entries                         *)
(***************************************************************************)
Tensor(r, c, e) == [r |-> r, c |-> c, e |-> e]

\* A name that no cell has assigned yet.
Unbound == [r |-> -1, c |-> -1, e |-> <<>>]

\* x.size(-1)
Size(m) == m.c

\* torch.randn(r, c): any r x c tensor over XVals.
Randn(r, c) == {Tensor(r, c, e) : e \in [1..r -> [1..c -> XVals]]}

\* The d x d matrices the weights wq, wk, wv are drawn from.
WeightPool(n) ==
    { Tensor(n, n, [i \in 1..n |-> [j \in 1..n |-> IF i = j THEN 1 ELSE 0]]),
      Tensor(n, n, [i \in 1..n |-> [j \in 1..n |-> IF i <= j THEN 1 ELSE -1]]),
      Tensor(n, n, [i \in 1..n |-> [j \in 1..n |-> 2 * i - j]]) }

\* torch.LongTensor([...]) holding a permutation of the n row indices.
Perms(n) == {p \in [1..n -> 1..n] : \A i, j \in 1..n : p[i] = p[j] => i = j}

\* x[perm]: row i of the result is row perm[i] of x.
Index(m, p) == Tensor(Len(p), m.c, [i \in 1..Len(p) |-> m.e[p[i]]])

\* x.transpose(-1, -2)
Transpose(m) == Tensor(m.c, m.r, [i \in 1..m.c |-> [j \in 1..m.r |-> m.e[j][i]]])

RECURSIVE SumInt(_, _)
\* f[1] + ... + f[n], accumulated in index order.
SumInt(f, n) == IF n = 0 THEN 0 ELSE SumInt(f, n - 1) + f[n]

\* A product whose accumulation stops one term early.
MatMulDropLast(a, b) ==
    Tensor(a.r, b.c,
           [i \in 1..a.r |-> [j \in 1..b.c |->
               SumInt([k \in 1..a.c |-> a.e[i][k] * b.e[k][j]],
                      IF a.c = 0 THEN 0 ELSE a.c - 1)]])

\* a.matmul(b) on integer tensors (a.c = b.r in every call the notebook makes).
MatMul(a, b) ==
    Tensor(a.r, b.c,
           [i \in 1..a.r |-> [j \in 1..b.c |->
               SumInt([k \in 1..a.c |-> a.e[i][k] * b.e[k][j]], a.c)]])

(***************************************************************************)
(* Exact values of softmax: polynomials in u = exp(-1) and their quotients *)
(***************************************************************************)
\* A polynomial is the sequence of its coefficients, p[k] that of u^(k-1).
PolyCoef(p, k) == IF k \in 1..Len(p) THEN p[k] ELSE 0

RECURSIVE PolyTrim(_)
\* The canonical form: no trailing zero coefficient.
PolyTrim(p) ==
    IF Len(p) = 0 THEN p
    ELSE IF p[Len(p)] = 0 THEN PolyTrim(SubSeq(p, 1, Len(p) - 1))
    ELSE p

PolyAdd(p, q) ==
    LET n == IF Len(p) >= Len(q) THEN Len(p) ELSE Len(q)
    IN  PolyTrim([k \in 1..n |-> PolyCoef(p, k) + PolyCoef(q, k)])

PolyScale(c, p) == PolyTrim([k \in 1..Len(p) |-> c * p[k]])

PolyMul(p, q) ==
    IF Len(p) = 0 \/ Len(q) = 0 THEN <<>>
    ELSE PolyTrim([k \in 1..(Len(p) + Len(q) - 1) |->
            SumInt([i \in 1..Len(p) |-> p[i] * PolyCoef(q, k - i + 1)], Len(p))])

\* A real number n / dn.
Real(n, dn) == [n |-> n, dn |-> dn]

RealZero == Real(<<>>, <<1>>)

RealOne == Real(<<1>>, <<1>>)

\* exp(k) for k <= 0: the monomial u^(-k).
Exp(k) == Real([i \in 1..(1 - k) |-> IF i = 1 - k THEN 1 ELSE 0], <<1>>)

RealAdd(a, b) ==
    IF a.dn = b.dn THEN Real(PolyAdd(a.n, b.n), a.dn)
    ELSE Real(PolyAdd(PolyMul(a.n, b.dn), PolyMul(b.n, a.dn)), PolyMul(a.dn, b.dn))

RealDiv(a, b) == Real(PolyMul(a.n, b.dn), PolyMul(a.dn, b.n))

RealMulInt(a, c) == Real(PolyScale(c, a.n), a.dn)

\* Equality of two quotients as real numbers (e is transcendental).
RealEq(a, b) == PolyMul(a.n, b.dn) = PolyMul(b.n, a.dn)

RECURSIVE SumReal(_, _)
SumReal(f, n) == IF n = 0 THEN RealZero ELSE RealAdd(SumReal(f, n - 1), f[n])

RECURSIVE MaxOf(_, _)
\* The largest of f[1..n], n >= 1.
MaxOf(f, n) ==
    IF n = 1 THEN f[1]
    ELSE LET m == MaxOf(f, n - 1) IN IF f[n] > m THEN f[n] ELSE m

\* softmax of one row: exp(s[j] - max) / sum_k exp(s[k] - max).
SoftmaxRow(s) ==
    LET n   == Len(s)
        m   == MaxOf(s, n)
        ex  == [j \in 1..n |-> Exp(s[j] - m)]
        tot == SumReal(ex, n)
    IN  [j \in 1..n |-> RealDiv(ex[j], tot)]

\* Softmax over dim = -2: each column normalized on its own.
SoftmaxDim0(w) ==
    LET cols == [j \in 1..w.c |-> SoftmaxRow([i \in 1..w.r |-> w.e[i][j]])]
    IN  Tensor(w.r, w.c, [i \in 1..w.r |-> [j \in 1..w.c |-> cols[j][i]]])

\* F.softmax(w, dim = -1): each row normalized on its own.
Softmax(w) ==
    Tensor(w.r, w.c, [i \in 1..w.r |-> IF w.c = 0 THEN <<>> ELSE SoftmaxRow(w.e[i])])

\* A product whose accumulation stops one term early.
MatMulRealDropLast(a, b) ==
    Tensor(a.r, b.c,
           [i \in 1..a.r |-> [j \in 1..b.c |->
               SumReal([k \in 1..a.c |-> RealMulInt(a.e[i][k], b.e[k][j])],
                       IF a.c = 0 THEN 0 ELSE a.c - 1)]])

\* torch.matmul(a, b), a of reals and b of integers.
MatMulReal(a, b) ==
    Tensor(a.r, b.c,
           [i \in 1..a.r |-> [j \in 1..b.c |->
               SumReal([k \in 1..a.c |-> RealMulInt(a.e[i][k], b.e[k][j])], a.c)]])

\* Two tensors of reals with the same shape and equal entries.
TensorEq(a, b) ==
    /\ a.r = b.r
    /\ a.c = b.c
    /\ \A i \in 1..a.r : \A j \in 1..a.c : RealEq(a.e[i][j], b.e[i][j])

(***************************************************************************)
(* The two functions: their locals and the value returned                  *)
(***************************************************************************)
\* basic_attention returning the normalized weights instead of y.
basic_attentionReturnsW(xx) ==
    LET w            == MatMul(xx, Transpose(xx))
        normalized_w == Softmax(w)
    IN  [fn |-> "basic", arg |-> xx, w |-> w, normalized_w |-> normalized_w,
         y |-> normalized_w, exc |-> "none"]

\* basic_attention with a guard that rejects an empty sequence.
basic_attentionChecked(xx) ==
    LET w            == MatMul(xx, Transpose(xx))
        normalized_w == Softmax(w)
        yy           == MatMulReal(normalized_w, xx)
    IN  IF xx.r = 0
        THEN [fn |-> "basic", arg |-> xx, w |-> Unbound, normalized_w |-> Unbound,
              y |-> Unbound, exc |-> "EmptyInput"]
        ELSE [fn |-> "basic", arg |-> xx, w |-> w, normalized_w |-> normalized_w,
              y |-> yy, exc |-> "none"]

\* def basic_attention(x): the locals, the value returned and the exception
\* raised.  The body has no raise statement and every tensor operation in it
\* accepts operands with zero rows.
basic_attention(xx) ==
    LET w            == MatMul(xx, Transpose(xx))
        normalized_w == Softmax(w)
        yy           == MatMulReal(normalized_w, xx)
    IN  [fn |-> "basic", arg |-> xx, w |-> w, normalized_w |-> normalized_w,
         y |-> yy, exc |-> "none"]

\* qkv_attention with the scores multiplied by d before the weighted sum.
qkv_attentionTimesD(xx, Wq, Wk, Wv) ==
    LET dd == Size(xx)
        q  == MatMul(xx, Wq)
        k  == MatMul(xx, Wk)
        v  == MatMul(xx, Wv)
        s  == MatMul(q, Transpose(k))
        w  == Tensor(s.r, s.c, [i \in 1..s.r |-> [j \in 1..s.c |-> dd * s.e[i][j]]])
        yy == MatMul(w, v)
    IN  [fn |-> "qkv", arg |-> xx, d |-> dd, q |-> q, k |-> k, v |-> v, w |-> w,
         y |-> yy, exc |-> "none"]

\* def qkv_attention(x): the locals (d among them), the value returned and the
\* exception raised.  wq, wk, wv are the module-level names, read at the call.
qkv_attention(xx, Wq, Wk, Wv) ==
    LET dd == Size(xx)
        q  == MatMul(xx, Wq)
        k  == MatMul(xx, Wk)
        v  == MatMul(xx, Wv)
        w  == MatMul(q, Transpose(k))
        yy == MatMul(w, v)
    IN  [fn |-> "qkv", arg |-> xx, d |-> dd, q |-> q, k |-> k, v |-> v, w |-> w,
         y |-> yy, exc |-> "none"]

NoFrame == [fn |-> "none"]

(***************************************************************************)
(* The kernel                                                              *)
(***************************************************************************)
\* A thread that has not been started.
Idle == [pc |-> "idle"]

\* After the cell that imports torch and defines basic_attention.
Init ==
    /\ t = -1
    /\ d = -1
    /\ x = Unbound
    /\ y = Unbound
    /\ perm = <<>>
    /\ x_new = Unbound
    /\ y_new = Unbound
    /\ wq = Unbound
    /\ wk = Unbound
    /\ wv = Unbound
    /\ pc = "cell4"
    /\ fr = NoFrame
    /\ exc = "none"
    /\ tb = Idle
    /\ tq = Idle

\* A cell stops at the statement that raises: the assignment of the call's
\* value does not happen and the run does not go on to the next cell.
After(f, next) == IF f.exc = "none" THEN next ELSE "halt"

\* t, d = 4, 2; x = torch.randn(t, d); y = basic_attention(x)
Cell4 ==
    /\ pc = "cell4"
    /\ \E tt \in 0..MaxT : \E xx \in Randn(tt, D) :
         LET f == basic_attention(xx)
         IN  /\ t' = tt
             /\ d' = D
             /\ x' = xx
             /\ y' = IF f.exc = "none" THEN f.y ELSE y
             /\ fr' = f
             /\ exc' = f.exc
             /\ pc' = After(f, "cell6")
    /\ UNCHANGED <<perm, x_new, y_new, wq, wk, wv, tb, tq>>

\* perm = torch.LongTensor([...]); x_new = x[perm]; y_new = basic_attention(x_new)
Cell6 ==
    /\ pc = "cell6"
    /\ \E p \in Perms(x.r) :
         LET f == basic_attention(Index(x, p))
         IN  /\ perm' = p
             /\ x_new' = Index(x, p)
             /\ y_new' = IF f.exc = "none" THEN f.y ELSE y_new
             /\ fr' = f
             /\ exc' = f.exc
             /\ pc' = After(f, "cell9")
    /\ UNCHANGED <<t, d, x, y, wq, wk, wv, tb, tq>>

\* wq = torch.randn(d, d); wk = torch.randn(d, d); wv = torch.randn(d, d)
\* and the definition of qkv_attention.
Cell9 ==
    /\ pc = "cell9"
    /\ wq' \in WeightPool(d)
    /\ wk' \in WeightPool(d)
    /\ wv' \in WeightPool(d)
    /\ pc' = "cell11"
    /\ UNCHANGED <<t, d, x, y, perm, x_new, y_new, fr, exc, tb, tq>>

\* t, d = 4, 2; x = torch.randn(t, d); y = qkv_attention(x)
Cell11 ==
    /\ pc = "cell11"
    /\ \E tt \in 0..MaxT : \E xx \in Randn(tt, D) :
         LET f == qkv_attention(xx, wq, wk, wv)
         IN  /\ t' = tt
             /\ d' = D
             /\ x' = xx
             /\ y' = IF f.exc = "none" THEN f.y ELSE y
             /\ fr' = f
             /\ exc' = f.exc
             /\ pc' = After(f, "cell12")
    /\ UNCHANGED <<perm, x_new, y_new, wq, wk, wv, tb, tq>>

\* Cell 12 with the weights drawn anew inside the call.
Cell12Redraw ==
    /\ pc = "cell12"
    /\ \E p \in Perms(x.r) : \E a \in WeightPool(d) :
         LET f == qkv_attention(Index(x, p), a, wk, wv)
         IN  /\ perm' = p
             /\ x_new' = Index(x, p)
             /\ y_new' = IF f.exc = "none" THEN f.y ELSE y_new
             /\ fr' = f
             /\ exc' = f.exc
             /\ pc' = After(f, "end")
    /\ UNCHANGED <<t, d, x, y, wq, wk, wv, tb, tq>>

\* perm = torch.LongTensor([...]); x_new = x[perm]; y_new = qkv_attention(x_new)
Cell12 ==
    /\ pc = "cell12"
    /\ \E p \in Perms(x.r) :
         LET f == qkv_attention(Index(x, p), wq, wk, wv)
         IN  /\ perm' = p
             /\ x_new' = Index(x, p)
             /\ y_new' = IF f.exc = "none" THEN f.y ELSE y_new
             /\ fr' = f
             /\ exc' = f.exc
             /\ pc' = After(f, "end")
    /\ UNCHANGED <<t, d, x, y, wq, wk, wv, tb, tq>>

\* The values x, perm, x_new, y_new of the first section are still bound when
\* the second section starts, and are overwritten there before they are read.
\* Of the runs of the first section, the one on a single vector of ones is
\* followed into the second section.
SampleX == Tensor(1, D, <<[j \in 1..D |-> 1]>>)

Next ==
    \/ Cell4
    \/ Cell6
    \/ (x = SampleX /\ Cell9)
    \/ Cell11
    \/ Cell12

Spec == Init /\ [][Next]_vars

(***************************************************************************)
(* Concurrent invocations                                                  *)
(***************************************************************************)
\* The kernel after cell 11: the states of Spec in which cell 12 is next.
InitPar ==
    /\ \E a \in WeightPool(D) : \E b \in WeightPool(D) : \E c \in WeightPool(D) :
       \E tt \in 0..MaxT : \E xx \in Randn(tt, D) :
          /\ wq = a
          /\ wk = b
          /\ wv = c
          /\ t = tt
          /\ x = xx
          /\ fr = qkv_attention(xx, a, b, c)
          /\ y = qkv_attention(xx, a, b, c).y
    /\ d = D
    /\ perm = <<1>>
    /\ x_new = Index(SampleX, <<1>>)
    /\ y_new = basic_attention(Index(SampleX, <<1>>)).y
    /\ pc = "cell12"
    /\ exc = "none"
    /\ tb = Idle
    /\ tq = Idle

\* The module-level names: no line of a function body assigns one of them.
globals == <<t, d, x, y, perm, x_new, y_new, wq, wk, wv, pc, fr, exc>>

\* basic_attention(x) and qkv_attention(x) are called, each in its own thread:
\* the parameter x of each frame is bound to the module-level x.
Spawn ==
    /\ tb = Idle
    /\ tq = Idle
    /\ tb' = [pc |-> "L41", arg |-> x, w |-> Unbound, normalized_w |-> Unbound,
              y |-> Unbound, ret |-> Unbound]
    /\ tq' = [pc |-> "L136", arg |-> x, d |-> -1, q |-> Unbound, k |-> Unbound,
              v |-> Unbound, w |-> Unbound, y |-> Unbound, ret |-> Unbound]
    /\ UNCHANGED globals

\* Line 41 with w a module-level name, shared with the w of qkv_attention.
BasicL41Global ==
    /\ tb.pc = "L41"
    /\ tb' = [tb EXCEPT !.w = MatMul(tb.arg, Transpose(tb.arg)), !.pc = "L42"]
    /\ tq' = IF tq.pc = "idle" THEN tq ELSE [tq EXCEPT !.w = MatMul(tb.arg, Transpose(tb.arg))]
    /\ UNCHANGED globals

\* w = x.matmul(x.transpose(-1, -2))
BasicL41 ==
    /\ tb.pc = "L41"
    /\ tb' = [tb EXCEPT !.w = MatMul(tb.arg, Transpose(tb.arg)), !.pc = "L42"]
    /\ UNCHANGED <<globals, tq>>

\* normalized_w = F.softmax(w, dim = -1)
BasicL42 ==
    /\ tb.pc = "L42"
    /\ tb' = [tb EXCEPT !.normalized_w = Softmax(tb.w), !.pc = "L43"]
    /\ UNCHANGED <<globals, tq>>

\* y = torch.matmul(normalized_w, x)
BasicL43 ==
    /\ tb.pc = "L43"
    /\ tb' = [tb EXCEPT !.y = MatMulReal(tb.normalized_w, tb.arg), !.pc = "L44"]
    /\ UNCHANGED <<globals, tq>>

\* return y
BasicL44 ==
    /\ tb.pc = "L44"
    /\ tb' = [tb EXCEPT !.ret = tb.y, !.pc = "done"]
    /\ UNCHANGED <<globals, tq>>

\* d = x.size(-1): d is assigned in the body, so it is a local of the frame.
QkvL136 ==
    /\ tq.pc = "L136"
    /\ tq' = [tq EXCEPT !.d = Size(tq.arg), !.pc = "L137"]
    /\ UNCHANGED <<globals, tb>>

\* q = x.matmul(wq)
QkvL137 ==
    /\ tq.pc = "L137"
    /\ tq' = [tq EXCEPT !.q = MatMul(tq.arg, wq), !.pc = "L138"]
    /\ UNCHANGED <<globals, tb>>

\* k = x.matmul(wk)
QkvL138 ==
    /\ tq.pc = "L138"
    /\ tq' = [tq EXCEPT !.k = MatMul(tq.arg, wk), !.pc = "L139"]
    /\ UNCHANGED <<globals, tb>>

\* v = x.matmul(wv)
QkvL139 ==
    /\ tq.pc = "L139"
    /\ tq' = [tq EXCEPT !.v = MatMul(tq.arg, wv), !.pc = "L140"]
    /\ UNCHANGED <<globals, tb>>

\* w = q.matmul(k.transpose(-1, -2))
QkvL140 ==
    /\ tq.pc = "L140"
    /\ tq' = [tq EXCEPT !.w = MatMul(tq.q, Transpose(tq.k)), !.pc = "L141"]
    /\ UNCHANGED <<globals, tb>>

\* y = w.matmul(v)
QkvL141 ==
    /\ tq.pc = "L141"
    /\ tq' = [tq EXCEPT !.y = MatMul(tq.w, tq.v), !.pc = "L142"]
    /\ UNCHANGED <<globals, tb>>

\* return y
QkvL142 ==
    /\ tq.pc = "L142"
    /\ tq' = [tq EXCEPT !.ret = tq.y, !.pc = "done"]
    /\ UNCHANGED <<globals, tb>>

NextPar ==
    \/ Spawn
    \/ BasicL41
    \/ BasicL42
    \/ BasicL43
    \/ BasicL44
    \/ QkvL136
    \/ QkvL137
    \/ QkvL138
    \/ QkvL139
    \/ QkvL140
    \/ QkvL141
    \/ QkvL142

SpecPar == InitPar /\ [][NextPar]_vars

(***************************************************************************)
(* Properties                                                              *)
(***************************************************************************)
\* The d x d identity.
Identity(n) == Tensor(n, n, [i \in 1..n |-> [j \in 1..n |-> IF i = j THEN 1 ELSE 0]])

\* m has shape (r, c), in its size fields and in its rows.
HasShape(m, r, c) ==
    /\ m.r = r
    /\ m.c = c
    /\ Len(m.e) = r
    /\ \A i \in 1..r : Len(m.e[i]) = c

\* A quotient whose numerator and denominator have no negative coefficient
\* and whose denominator is not zero: a real number >= 0.
RealNonNeg(a) ==
    /\ \A k \in 1..Len(a.n) : a.n[k] >= 0
    /\ \A k \in 1..Len(a.dn) : a.dn[k] >= 0
    /\ Len(a.dn) > 0

\* a - c for an integer c.
RealSubInt(a, c) == Real(PolyAdd(a.n, PolyScale(-c, a.dn)), a.dn)

\* c - a for an integer c.
IntSubReal(c, a) == Real(PolyAdd(PolyScale(c, a.dn), PolyScale(-1, a.n)), a.dn)

\* The smallest and the largest entry of column c of the integer tensor m.
ColMin(m, c) == CHOOSE v \in {m.e[i][c] : i \in 1..m.r} : \A i \in 1..m.r : v <= m.e[i][c]

ColMax(m, c) == CHOOSE v \in {m.e[i][c] : i \in 1..m.r} : \A i \in 1..m.r : v >= m.e[i][c]

\* The second section has run to its end: y = qkv_attention(x) and
\* y_new = qkv_attention(x[perm]) are both bound.
QkvDone == pc = "end"

\* The first section has run to its end: y = basic_attention(x) and
\* y_new = basic_attention(x[perm]) are both bound.
BasicDone == pc = "cell9"

C2_BasicEquivariant ==
    BasicDone =>
        /\ HasShape(y_new, y.r, y.c)
        /\ \A i \in 1..y.r : \A j \in 1..y.c : RealEq(y_new.e[i][j], y.e[perm[i]][j])

\* C2 witness: a cyclic shift of three rows that changes the output.
C2_Witness ==
    /\ BasicDone
    /\ perm = <<2, 3, 1>>
    /\ ~TensorEq(y_new, y)

\* C3 (the claim as stated): the matrix that qkv_attention multiplies by v has
\* only non-negative entries and rows that sum to 1.
C3_QkvRowStochastic ==
    fr.fn = "qkv" =>
        \A i \in 1..fr.w.r :
            /\ \A j \in 1..fr.w.c : fr.w.e[i][j] >= 0
            /\ SumInt(fr.w.e[i], fr.w.c) = 1

\* C4 (the claim as stated): the scores that qkv_attention multiplies by v are
\* q_i . k_j / sqrt(d): s * sqrt(d) = q_i . k_j, that is s * s * d = (q_i . k_j)^2
\* with s and q_i . k_j of the same sign.
C4_QkvScaled ==
    fr.fn = "qkv" =>
        \A i \in 1..fr.w.r : \A j \in 1..fr.w.c :
            LET s   == fr.w.e[i][j]
                dot == SumInt([m \in 1..fr.q.c |-> fr.q.e[i][m] * fr.k.e[j][m]], fr.q.c)
            IN  /\ s * s * fr.d = dot * dot
                /\ s * dot >= 0

\* C5: in basic_attention every entry of normalized_w is >= 0, every row of
\* normalized_w sums to 1, and every entry of y lies between the smallest and
\* the largest entry of its column of x.
C5_BasicRowStochastic ==
    (fr.fn = "basic" /\ fr.arg.r >= 1) =>
        /\ \A i \in 1..fr.normalized_w.r :
              /\ \A j \in 1..fr.normalized_w.c : RealNonNeg(fr.normalized_w.e[i][j])
              /\ RealEq(SumReal(fr.normalized_w.e[i], fr.normalized_w.c), RealOne)
        /\ \A i \in 1..fr.y.r : \A c \in 1..fr.y.c :
              /\ RealNonNeg(RealSubInt(fr.y.e[i][c], ColMin(fr.arg, c)))
              /\ RealNonNeg(IntSubReal(ColMax(fr.arg, c), fr.y.e[i][c]))

\* C5 witness: three vectors whose weights are not uniform.
C5_Witness ==
    /\ fr.fn = "basic"
    /\ fr.arg.r = 3
    /\ ~RealEq(fr.normalized_w.e[1][1], fr.normalized_w.e[1][2])
    /\ ~RealEq(fr.normalized_w.e[1][2], fr.normalized_w.e[2][1])

\* C6: for x of shape (t, d) with t >= 1, basic_attention has scores and
\* normalized weights of shape (t, t) and returns shape (t, d); qkv_attention
\* has q, k, v of shape (t, d), scores of shape (t, t) and returns shape (t, d).
C6_ShapePreserved ==
    /\ (fr.fn = "basic" /\ fr.arg.r >= 1) =>
          /\ HasShape(fr.w, fr.arg.r, fr.arg.r)
          /\ HasShape(fr.normalized_w, fr.arg.r, fr.arg.r)
          /\ HasShape(fr.y, fr.arg.r, fr.arg.c)
    /\ (fr.fn = "qkv" /\ fr.arg.r >= 1) =>
          /\ HasShape(fr.q, fr.arg.r, fr.arg.c)
          /\ HasShape(fr.k, fr.arg.r, fr.arg.c)
          /\ HasShape(fr.v, fr.arg.r, fr.arg.c)
          /\ HasShape(fr.w, fr.arg.r, fr.arg.r)
          /\ HasShape(fr.y, fr.arg.r, fr.arg.c)

\* C6 witness: qkv_attention on three vectors of dimension 2 (t differs from d).
C6_Witness ==
    /\ fr.fn = "qkv"
    /\ fr.arg.r = 3
    /\ fr.arg.c = 2
    /\ y_new = fr.y

C8_EmptyRejected ==
    (fr.fn # "none" /\ fr.arg.r = 0) => (exc = "EmptyInput" /\ fr.y = Unbound)

\* C8 (amended): a call with t = 0 raises nothing and returns the empty
\* tensor of shape (0, d), which the cell binds.
C8_EmptyAccepted ==
    (fr.fn # "none" /\ fr.arg.r = 0) =>
        /\ exc = "none"
        /\ pc # "halt"
        /\ fr.y = Tensor(0, fr.arg.c, <<>>)
        /\ (pc \in {"cell6", "cell12"} => y = fr.y)
        /\ (pc \in {"cell9", "end"} => y_new = fr.y)

\* C8 witness: both calls of the second section made on an empty sequence.
C8_Witness ==
    /\ QkvDone
    /\ fr.arg.r = 0
    /\ x.r = 0
    /\ y_new = Tensor(0, D, <<>>)

\* C9: no line of an invocation changes a module-level name (the weights,
\* the input x and d among them) or the argument it was passed, and however
\* the lines of two concurrent invocations interleave, each returns what it
\* returns when run alone: basic_attention(x) the value of the function on x,
\* qkv_attention(x) the value y that cell 11 obtained from it.
C9_NoSideEffects ==
    [][ /\ UNCHANGED <<t, d, x, y, perm, x_new, y_new, wq, wk, wv>>
        /\ (tb'.pc # "idle" => tb'.arg = x)
        /\ (tq'.pc # "idle" => tq'.arg = x)
        /\ (tb'.pc = "done" => tb'.ret = basic_attention(x).y)
        /\ (tq'.pc = "done" => tq'.ret = y) ]_vars

\* C9 witness: both invocations are in progress at once, qkv_attention between
\* its lines 140 and 141 and basic_attention between its lines 42 and 43, on
\* three vectors with scores that differ between the two functions.
C9_Witness ==
    /\ tb.pc = "L43"
    /\ tq.pc = "L141"
    /\ x.r = 3
    /\ tb.w # tq.w

====
